---- MODULE Spec2Model ----
(***************************************************************************)
(* A model of gogitver's version resolution (pkg/git/git.go).              *)
(*                                                                         *)
(* A semver.Version is a heap object: getVersion holds *semver.Version     *)
(* pointers (masterVersion, baseVersion, gitVersion.Name) and the Bump     *)
(* methods and the PreRelease assignment write through them, so the model  *)
(* keeps a heap of Version values and the pointers are addresses into it.  *)
(***************************************************************************)
EXTENDS Integers, Sequences, FiniteSets, TLC

VARIABLES
    pc,             \* position in the function under execution
    commits,        \* the repository's commits: commit -> [parent, bump]
    refs,           \* the repository's references: name -> commit (0: none)
    remote,         \* remote "origin": [present, head, fetch]
    env,            \* the process environment: variable -> [ok, value]
    tagRefs,        \* refs/tags/*: the references r.Tags() enumerates
    tagObjects,     \* the tag objects r.TagObjects() enumerates
    ltagsLeft,      \* GetCurrentVersion: what ltags.ForEach has yet to visit
    tagsLeft,       \* GetCurrentVersion: what tags.ForEach has yet to visit
    tagMap,         \* GetCurrentVersion: tagMap, hash -> tag name
    branchSettings, \* type BranchSettings
    headHash,       \* h.Hash(): the commit HEAD resolves to
    currentBranch,  \* getVersion: currentBranch (sanitized name)
    defaultBranch,  \* getVersion: defaultBranch, the resolved reference
    attempts,       \* getDefaultBranch: the names handed to tryResolve, in order
    heap,           \* address -> semver.Version value
    masterVersion,  \* getVersion: masterVersion (address, or Nil)
    baseVersion,    \* getVersion: baseVersion (address, or Nil)
    versionMap,     \* getVersion: versionMap (newest first)
    index,          \* getVersion: index
    result          \* what the function returned: [err, version]

repoVars == <<commits, refs, remote, env, tagRefs, tagObjects, branchSettings, headHash>>
tagVars == <<ltagsLeft, tagsLeft, tagMap>>
branchVars == <<currentBranch, defaultBranch, attempts>>
asmVars == <<heap, masterVersion, baseVersion, versionMap, index>>

vars == <<pc, repoVars, tagVars, branchVars, asmVars, result>>

----------------------------------------------------------------------------
(* Bounds of the model *)

\* longest traversal sequence handed to the assembly step
MaxLen == 3

\* most fetch refspecs of remote "origin"
MaxFetch == 2

\* most commits of a repository
MaxCommits == 3

----------------------------------------------------------------------------
(* semver.Version (github.com/coreos/go-semver), as used by git.go *)

Nil == -1
MasterAddr == 0

NoPreRelease == <<>>

Version(major, minor, patch, pre) ==
    [Major |-> major, Minor |-> minor, Patch |-> patch, PreRelease |-> pre]

Numeric(v) == <<v.Major, v.Minor, v.Patch>>

\* v.BumpMajor(): Major += 1; Minor = 0; Patch = 0; PreRelease = ""
BumpMajor(v) == Version(v.Major + 1, 0, 0, NoPreRelease)

\* v.BumpMinor(): Minor += 1; Patch = 0; PreRelease = ""
BumpMinor(v) == Version(v.Major, v.Minor + 1, 0, NoPreRelease)

\* v.BumpPatch(): Patch += 1; PreRelease = ""
BumpPatch(v) == Version(v.Major, v.Minor, v.Patch + 1, NoPreRelease)

\* lexicographic order on (major, minor, patch): recursiveCompare < 0
NumericLess(a, b) ==
    \/ a.Major < b.Major
    \/ a.Major = b.Major /\ a.Minor < b.Minor
    \/ a.Major = b.Major /\ a.Minor = b.Minor /\ a.Patch < b.Patch

\* preReleaseCompare < 0: with equal numeric parts the version that has a
\* prerelease orders below the one that has none; two labels built by
\* getVersion, <<branch, count, shortHash>>, compare field by field (labels
\* of one resolution share the branch name).
PreReleaseLess(a, b) ==
    IF a = NoPreRelease THEN FALSE
    ELSE IF b = NoPreRelease THEN TRUE
    ELSE \/ a[2] < b[2]
         \/ a[2] = b[2] /\ a[3][1] < b[3][1]

\* a.LessThan(b): Compare(a, b) < 0
LessThan(a, b) ==
    \/ NumericLess(a, b)
    \/ Numeric(a) = Numeric(b) /\ PreReleaseLess(a.PreRelease, b.PreRelease)

----------------------------------------------------------------------------
(* Commits, hashes, records *)

\* h.Hash().String(): a commit's hash as a string of digits
HashString(c) == <<c, 10, 11, 12, 13, 14>>

\* h.Hash().String()[:4]
ShortHash(c) == SubSeq(HashString(c), 1, 4)

\* the name of the tag a tagged commit bears: commit c bears "c.0.0"
TagName(c) == <<c, 0, 0>>

\* parseTag: the version a valid tag name denotes
parseTag(name) == Version(name[1], name[2], name[3], NoPreRelease)

\* type gitVersion
GitVersion(solid, name, major, minor, patch, commit) ==
    [IsSolid |-> solid, Name |-> name, MajorBump |-> major,
     MinorBump |-> minor, PatchBump |-> patch, Commit |-> commit]

NoResult == [err |-> "", version |-> Nil]

----------------------------------------------------------------------------
(* Reference names, branch names, the environment *)

\* A branch name is the sequence of its maximal runs: a run of characters of
\* [a-zA-Z0-9] is one word, and every other character is an element by itself.
Separators == {"/", "-", "_", "."}

\* plumbing.ReferenceName: prefix ++ short; plus marks a leading "+"
RefName(prefix, short) == [plus |-> FALSE, prefix |-> prefix, short |-> short]

HeadsPrefix == "refs/heads/"
OriginPrefix == "refs/remotes/origin/"

\* plumbing.Master
Master == RefName(HeadsPrefix, <<"master">>)

\* refs/remotes/origin/HEAD, a symbolic reference
OriginHEAD == RefName(OriginPrefix, <<"HEAD">>)

\* ReferenceName.IsBranch()
IsBranch(name) == ~name.plus /\ name.prefix = HeadsPrefix

\* ReferenceName.Short()
Short(name) == name.short

\* the commit a reference of the repository points at, 0 when there is none
Target(rf, name) == IF name \in DOMAIN rf THEN rf[name] ELSE 0

NilRef == [name |-> RefName("", <<>>), hash |-> 0]

\* os.LookupEnv
Unset == [ok |-> FALSE, value |-> <<>>]
SetTo(v) == [ok |-> TRUE, value |-> v]

----------------------------------------------------------------------------
(* GetCurrentVersion: the TRAVIS_TAG shortcut and the tag map (git.go 36-91) *)

\* a tagMap that keeps the first name stored for a hash
PutTagIfAbsent(map, hash, name) ==
    [k \in DOMAIN map \cup {hash} |-> IF k \in DOMAIN map THEN map[k] ELSE name]

\* lines 63, 81: tagMap[hash] = name
PutTag(map, hash, name) ==
    [k \in DOMAIN map \cup {hash} |-> IF k = hash THEN name ELSE map[k]]

\* where GetCurrentVersion stands once ltags.ForEach has `left` to visit
AfterLightweight(left) ==
    IF left # {} THEN "ltags" ELSE IF tagObjects # {} THEN "tags" ELSE "getCurrentBranch"

\* lines 37-56: the shortcut, else the start of the enumeration
TravisTag ==
    /\ pc = "GetCurrentVersion"
    /\ LET tag == env["TRAVIS_TAG"] IN
       IF ~branchSettings.IgnoreEnvVars /\ tag.ok /\ tag.value # <<>>
       THEN /\ pc' = "done"
            /\ result' = [err |-> "", version |-> Nil, text |-> parseTag(tag.value)]
            /\ UNCHANGED tagVars
       ELSE /\ pc' = AfterLightweight(tagRefs)
            /\ ltagsLeft' = tagRefs
            /\ tagsLeft' = tagObjects
            /\ tagMap' = <<>>
            /\ UNCHANGED result
    /\ UNCHANGED <<repoVars, branchVars, asmVars>>

\* lines 57-65: one call of the callback of ltags.ForEach
LightweightTag ==
    /\ pc = "ltags"
    /\ \E ref \in ltagsLeft :
          /\ tagMap' = PutTag(tagMap, ref.hash, ref.name)
          /\ ltagsLeft' = ltagsLeft \ {ref}
          /\ pc' = AfterLightweight(ltagsLeft')
    /\ UNCHANGED <<repoVars, tagsLeft, branchVars, asmVars, result>>

\* lines 73-91: one call of the callback of tags.ForEach; a tag object whose
\* target is no commit ends GetCurrentVersion with the error
AnnotatedTag ==
    /\ pc = "tags"
    /\ \E ref \in tagsLeft :
          IF ref.target = 0
          THEN /\ pc' = "done"
               /\ result' = [err |-> "GetCurrentVersion failed: get commit failed",
                             version |-> Nil]
               /\ UNCHANGED tagVars
          ELSE /\ tagMap' = PutTag(tagMap, ref.target, ref.name)
               /\ tagsLeft' = tagsLeft \ {ref}
               /\ pc' = IF tagsLeft' # {} THEN "tags" ELSE "getCurrentBranch"
               /\ UNCHANGED <<ltagsLeft, result>>
    /\ UNCHANGED <<repoVars, branchVars, asmVars>>

----------------------------------------------------------------------------
(* cleanseBranchName (git.go 300-318) *)

RECURSIVE ReplaceRuns(_)
\* line 306: every run of characters outside [a-zA-Z0-9] becomes one "-"
ReplaceRuns(name) ==
    IF name = <<>> THEN <<>>
    ELSE IF Head(name) \in Separators
         THEN IF Len(name) > 1 /\ name[2] \in Separators
              THEN ReplaceRuns(Tail(name))
              ELSE <<"-">> \o ReplaceRuns(Tail(name))
         ELSE <<Head(name)>> \o ReplaceRuns(Tail(name))

\* lines 311-316: strip a leading "feature-" or "hotfix-"
TrimPrefix(name) ==
    IF Len(name) >= 2 /\ name[1] \in {"feature", "hotfix"} /\ name[2] = "-"
    THEN SubSeq(name, 3, Len(name))
    ELSE name

cleanseBranchName(name, trimPrefix) ==
    IF trimPrefix THEN TrimPrefix(ReplaceRuns(name)) ELSE ReplaceRuns(name)

----------------------------------------------------------------------------
(* getCurrentBranch (git.go 243-298) *)

\* lines 247, 256, 265: the signals, in the order they are looked up
BranchSignals == <<"TRAVIS_PULL_REQUEST_BRANCH", "TRAVIS_BRANCH", "CI_COMMIT_REF_NAME">>

\* lines 248, 257, 266: what makes a signal the answer
SignalTaken(e) == e.ok

\* lines 246-273: the first signal taken, 0 when none is
FirstSignal(e, settings) ==
    IF settings.IgnoreEnvVars THEN 0
    ELSE IF SignalTaken(e[BranchSignals[1]]) THEN 1
    ELSE IF SignalTaken(e[BranchSignals[2]]) THEN 2
    ELSE IF SignalTaken(e[BranchSignals[3]]) THEN 3
    ELSE 0

\* lines 279-284: the branch references whose hash is HEAD's
BranchesAt(rf, hash) == {n \in DOMAIN rf : IsBranch(n) /\ rf[n] = hash /\ hash # 0}

\* The outcomes of getCurrentBranch: [err, name]. The scan keeps the last
\* matching branch of the iteration, whose order the storage decides.
CurrentBranchOutcomes(e, rf, hash, settings) ==
    LET s == FirstSignal(e, settings) IN
    IF s # 0
    THEN {[err |-> "", name |-> cleanseBranchName(e[BranchSignals[s]].value,
                                                   settings.TrimBranchPrefix)]}
    ELSE IF BranchesAt(rf, hash) = {}
         THEN {[err |-> "Cannot determine branch", name |-> <<>>]}
         ELSE {[err |-> "", name |-> cleanseBranchName(Short(n), settings.TrimBranchPrefix)] :
                  n \in BranchesAt(rf, hash)}

\* getVersion 164-167
GetCurrentBranch ==
    /\ pc = "getCurrentBranch"
    /\ \E out \in CurrentBranchOutcomes(env, refs, headHash, branchSettings) :
          IF out.err # ""
          THEN /\ pc' = "done"
               /\ result' = [err |-> out.err, version |-> Nil]
               /\ UNCHANGED currentBranch
          ELSE /\ pc' = "getDefaultBranch"
               /\ currentBranch' = out.name
               /\ UNCHANGED result
    /\ UNCHANGED <<repoVars, tagVars, defaultBranch, attempts, asmVars>>

----------------------------------------------------------------------------
(* getDefaultBranch (git.go 110-161) *)

\* line 119: r.Reference(refName, true); origin/HEAD is symbolic and resolves
\* to the reference it names
Resolve(rf, rem, name) ==
    LET real == IF name = OriginHEAD THEN rem.head ELSE name IN
    IF real # OriginHEAD /\ ~real.plus /\ Target(rf, real) # 0
    THEN [name |-> real, hash |-> Target(rf, real)]
    ELSE NilRef

\* config.RefSpec "[+]src*:dst*"; dstPlus: the destination starts with "+"
RefSpec(force, src, dst) == [force |-> force, src |-> src, dst |-> dst, dstPlus |-> FALSE]

\* RefSpec.Reverse(): the text after the ":" , ":" , the text before it
Reverse(rs) == [force |-> rs.dstPlus, src |-> rs.dst, dst |-> rs.src, dstPlus |-> rs.force]

\* RefSpec.Match(name)
Match(rs, name) == ~name.plus /\ name.prefix = rs.src

\* RefSpec.Dst(name)
Dst(rs, name) == [plus |-> rs.dstPlus, prefix |-> rs.dst, short |-> name.short]

\* lines 148-150: drop a leading "+"
StripPlus(name) == [name EXCEPT !.plus = FALSE]

Found(ref, tried) == [kind |-> "ok", ref |-> ref, attempts |-> tried]
Failed(tried) ==
    [kind |-> "error", ref |-> NilRef, attempts |-> tried]
Panicked(tried) == [kind |-> "panic", ref |-> NilRef, attempts |-> tried]

RECURSIVE FetchLoop(_, _, _, _, _)
\* lines 144-156: the loop over origin's fetch refspecs; ref is the variable
\* the loop reads and overwrites, NilRef once a tryResolve in it has failed
FetchLoop(rf, rem, i, ref, tried) ==
    IF i > Len(rem.fetch) THEN Failed(tried)
    ELSE IF ref = NilRef THEN Panicked(tried)
    ELSE LET rs == Reverse(rem.fetch[i]) IN
         IF Match(rs, ref.name)
         THEN LET localRefName == StripPlus(Dst(rs, ref.name))
                  got == Resolve(rf, rem, localRefName)
              IN IF got # NilRef
                 THEN Found(got, Append(tried, localRefName))
                 ELSE FetchLoop(rf, rem, i + 1, got, Append(tried, localRefName))
         ELSE FetchLoop(rf, rem, i + 1, ref, tried)

\* lines 140-160
TryOrigin(rf, rem, tried) ==
    IF ~rem.present THEN Failed(tried)
    ELSE LET ref == Resolve(rf, rem, OriginHEAD) IN
         IF ref = NilRef THEN Failed(Append(tried, OriginHEAD))
         ELSE FetchLoop(rf, rem, 1, ref, Append(tried, OriginHEAD))

\* lines 133-138
TryMaster(rf, rem, preferred, tried) ==
    IF preferred # Master
    THEN IF Resolve(rf, rem, Master) # NilRef
         THEN Found(Resolve(rf, rem, Master), Append(tried, Master))
         ELSE TryOrigin(rf, rem, Append(tried, Master))
    ELSE TryOrigin(rf, rem, tried)

\* lines 128-160
getDefaultBranch(rf, rem, preferred) ==
    IF Resolve(rf, rem, preferred) # NilRef
    THEN Found(Resolve(rf, rem, preferred), <<preferred>>)
    ELSE TryMaster(rf, rem, preferred, <<preferred>>)

\* getVersion 172-175
GetDefaultBranch ==
    /\ pc = "getDefaultBranch"
    /\ LET out == getDefaultBranch(refs, remote, branchSettings.DefaultBranch) IN
       /\ attempts' = out.attempts
       /\ defaultBranch' = out.ref
       /\ IF out.kind = "ok"
          THEN pc' = "masterWalk" /\ UNCHANGED result
          ELSE /\ pc' = "done"
               /\ result' = [err |-> IF out.kind = "panic"
                                     THEN "panic: nil pointer dereference"
                                     ELSE "failed to get default branch",
                             version |-> Nil]
    /\ UNCHANGED <<repoVars, tagVars, currentBranch, asmVars>>

----------------------------------------------------------------------------
(* The branch walker (newBranchWalker, GetVersion, GetVersionMap) *)

\* the configured initial version
InitialVersion == Version(0, 0, 0, NoPreRelease)

\* the classification of one commit; addr is where a solid record's Name lives
Classify(c, addr) ==
    IF c \in DOMAIN tagMap
    THEN GitVersion(TRUE, addr, FALSE, FALSE, FALSE, c)
    ELSE GitVersion(FALSE, Nil, commits[c].bump = "major", commits[c].bump = "minor",
                    commits[c].bump = "patch", c)

RECURSIVE EnumeratePath(_, _)
\* enumerate mode: the commits from c back along first parents, up to and
\* including stop, or to the root
EnumeratePath(c, stop) ==
    IF c = 0 THEN <<>>
    ELSE IF c = stop THEN <<c>>
    ELSE <<c>> \o EnumeratePath(commits[c].parent, stop)

\* walker.GetVersionMap(): the records of the path, newest first
GetVersionMap(start, stop) ==
    LET path == EnumeratePath(start, stop) IN
    [i \in 1..Len(path) |-> Classify(path[i], i)]

RECURSIVE ResolvePath(_)
\* resolve mode: the commits from c back to the first solid one, or to the root
ResolvePath(c) ==
    IF c = 0 THEN <<>>
    ELSE IF c \in DOMAIN tagMap THEN <<c>>
    ELSE <<c>> \o ResolvePath(commits[c].parent)

RECURSIVE Aggregate(_, _, _)
\* the bumps of records[1..i] applied to base, the oldest (records[i]) first
Aggregate(base, records, i) ==
    IF i = 0 THEN base
    ELSE Aggregate(IF records[i].MajorBump THEN BumpMajor(base)
                   ELSE IF records[i].MinorBump THEN BumpMinor(base)
                   ELSE IF records[i].PatchBump THEN BumpPatch(base)
                   ELSE base,
                   records, i - 1)

\* masterWalker.GetVersion(): the version the resolve-mode walk returns
GetVersion(start) ==
    LET path == ResolvePath(start)
        records == [i \in 1..Len(path) |-> Classify(path[i], i)]
        n == Len(path)
    IN IF n > 0 /\ records[n].IsSolid
       THEN Aggregate(parseTag(tagMap[path[n]]), records, n - 1)
       ELSE Aggregate(InitialVersion, records, n)

----------------------------------------------------------------------------
(* getVersion, the two walks (git.go 177-201) *)

\* lines 177-190: the default branch's version; HEAD on the default branch's
\* commit returns it
MasterWalk ==
    /\ pc = "masterWalk"
    /\ heap' = [a \in {MasterAddr} |-> GetVersion(defaultBranch.hash)]
    /\ masterVersion' = MasterAddr
    /\ IF headHash = defaultBranch.hash
       THEN /\ pc' = "done"
            /\ result' = [err |-> "", version |-> MasterAddr]
       ELSE /\ pc' = "branchWalk"
            /\ UNCHANGED result
    /\ UNCHANGED <<repoVars, tagVars, branchVars, baseVersion, versionMap, index>>

\* lines 192-201: the records from HEAD back to the default branch's commit
BranchWalk ==
    /\ pc = "branchWalk"
    /\ versionMap' = GetVersionMap(headHash, defaultBranch.hash)
    /\ heap' = [a \in {MasterAddr} \cup {i \in 1..Len(versionMap') : versionMap'[i].IsSolid} |->
                   IF a = MasterAddr THEN heap[MasterAddr]
                   ELSE parseTag(tagMap[versionMap'[a].Commit])]
    /\ pc' = "assemble"
    /\ UNCHANGED <<repoVars, tagVars, branchVars, masterVersion, baseVersion, index, result>>

----------------------------------------------------------------------------
(* getVersion, the assembly step (git.go 203-240) *)

\* a base selection that overlooks IsSolid
BaseAlwaysMaster(vm, master) == master

\* lines 209-214: the base version
BaseOf(vm, master) ==
    IF vm[Len(vm)].IsSolid THEN vm[Len(vm)].Name ELSE master

\* lines 204, 209-214: the first index to fold
FirstIndex(vm) ==
    IF vm[Len(vm)].IsSolid THEN Len(vm) - 2 ELSE Len(vm) - 1

\* lines 203-218: the base version and the first index to fold
SelectBase ==
    /\ pc = "assemble"
    /\ IF Len(versionMap) = 0
       THEN /\ pc' = "done"
            /\ result' = [err |-> "Cannot determine version in branch", version |-> Nil]
            /\ UNCHANGED <<baseVersion, index>>
       ELSE /\ baseVersion' = BaseOf(versionMap, masterVersion)
            /\ index' = FirstIndex(versionMap)
            /\ IF index' < 0
               THEN /\ pc' = "done"
                    /\ result' = [err |-> "", version |-> baseVersion']
               ELSE /\ pc' = "fold"
                    /\ UNCHANGED result
    /\ UNCHANGED <<repoVars, tagVars, branchVars, heap, masterVersion, versionMap>>

\* a switch whose cases are in the order patch, minor, major
ApplyBumpPatchFirst(v, b) ==
    IF v.PatchBump THEN BumpPatch(b)
    ELSE IF v.MinorBump THEN BumpMinor(b)
    ELSE IF v.MajorBump THEN BumpMajor(b)
    ELSE b

\* lines 222-229: the switch of one loop iteration, applied to the base object
ApplyBump(v, b) ==
    IF v.MajorBump THEN BumpMajor(b)
    ELSE IF v.MinorBump THEN BumpMinor(b)
    ELSE IF v.PatchBump THEN BumpPatch(b)
    ELSE b

\* line 220: the loop's step
NextIndex(i) == i - 1

\* lines 220-230: one iteration of the loop (the slice index is 0-based)
FoldStep ==
    /\ pc = "fold"
    /\ index >= 0
    /\ heap' = [heap EXCEPT ![baseVersion] = ApplyBump(versionMap[index + 1], @)]
    /\ index' = NextIndex(index)
    /\ pc' = IF index' >= 0 THEN "fold" ELSE "label"
    /\ UNCHANGED <<repoVars, tagVars, branchVars, masterVersion, baseVersion,
                   versionMap, result>>

\* line 233: the count formatted into the label
LabelCount(vm) == Len(vm) - 1

\* lines 232-234: the prerelease label "%s-%d-%s"
AttachPrerelease ==
    /\ pc = "label"
    /\ heap' = [heap EXCEPT ![baseVersion].PreRelease =
                    <<currentBranch, LabelCount(versionMap), ShortHash(headHash)>>]
    /\ pc' = "check"
    /\ UNCHANGED <<repoVars, tagVars, branchVars, masterVersion, baseVersion,
                   versionMap, index, result>>

\* line 236: the condition of the safety check
BehindDefault(settings, base, master) ==
    settings.ForbidBehindDefaultBranch /\ LessThan(base, master)

\* lines 236-240: the safety check and the return
ForbidCheck ==
    /\ pc = "check"
    /\ IF BehindDefault(branchSettings, heap[baseVersion], heap[masterVersion])
       THEN result' = [err |-> "Branch has calculated version whose version is less than master",
                       version |-> Nil]
       ELSE result' = [err |-> "", version |-> baseVersion]
    /\ pc' = "done"
    /\ UNCHANGED <<repoVars, tagVars, branchVars, asmVars>>

----------------------------------------------------------------------------
(* What the specifications share *)

\* type BranchSettings
BranchSettings(forbid, trim, ignore, default) ==
    [ForbidBehindDefaultBranch |-> forbid, TrimBranchPrefix |-> trim,
     IgnoreEnvVars |-> ignore, DefaultBranch |-> default]

NoEnv == [v \in {BranchSignals[i] : i \in 1..3} \cup {"TRAVIS_TAG"} |-> Unset]
NoRemote == [present |-> FALSE, head |-> OriginHEAD, fetch |-> <<>>]

\* the variables a specification leaves out
NoRepo ==
    /\ commits = <<>>
    /\ refs = <<>>
    /\ remote = NoRemote
    /\ env = NoEnv
NoTags ==
    /\ tagRefs = {}
    /\ tagObjects = {}
    /\ ltagsLeft = {}
    /\ tagsLeft = {}
    /\ tagMap = <<>>
NoAssembly ==
    /\ heap = <<>>
    /\ masterVersion = Nil
    /\ baseVersion = Nil
    /\ versionMap = <<>>
    /\ index = Nil

Commits == 1..MaxCommits

\* the references the repositories have
FeatureX == RefName(HeadsPrefix, <<"feature", "/", "x">>)
OriginMaster == RefName(OriginPrefix, <<"master">>)
Main == RefName(HeadsPrefix, <<"main">>)
Trunk == RefName(HeadsPrefix, <<"trunk">>)
OriginMain == RefName(OriginPrefix, <<"main">>)
OriginTrunk == RefName(OriginPrefix, <<"trunk">>)

----------------------------------------------------------------------------
(* getVersion on every repository of MaxCommits commits *)

Bumps == {"none", "major", "minor", "patch"}

Init ==
    /\ pc = "getCurrentBranch"
    /\ \E tagged \in SUBSET Commits :
          /\ tagMap = [c \in tagged |-> TagName(c)]
          /\ \E par \in [Commits -> {0} \cup Commits], bump \in [Commits -> Bumps] :
                /\ \A c \in Commits : par[c] < c /\ (c > 1 => par[c] > 0)
                /\ \A c \in tagged : bump[c] = "none"
                /\ commits = [c \in Commits |-> [parent |-> par[c], bump |-> bump[c]]]
    /\ refs \in [{Master, FeatureX} -> {0} \cup Commits]
    /\ refs[Master] # 0
    /\ remote = NoRemote
    /\ env = NoEnv
    /\ tagRefs = {}
    /\ tagObjects = {}
    /\ ltagsLeft = {}
    /\ tagsLeft = {}
    /\ \E forbid \in BOOLEAN : branchSettings = BranchSettings(forbid, FALSE, FALSE, Master)
    /\ headHash \in Commits
    /\ currentBranch = <<>>
    /\ defaultBranch = NilRef
    /\ attempts = <<>>
    /\ NoAssembly
    /\ result = NoResult

Next ==
    \/ GetCurrentBranch
    \/ GetDefaultBranch
    \/ MasterWalk
    \/ BranchWalk
    \/ SelectBase
    \/ FoldStep
    \/ AttachPrerelease
    \/ ForbidCheck

Spec == Init /\ [][Next]_vars

----------------------------------------------------------------------------
(* The assembly step on every traversal sequence up to MaxLen *)

\* what one record of a sequence can be: solid, or any combination of flags
Shapes ==
    {[solid |-> TRUE, flags |-> {}]}
        \cup {[solid |-> FALSE, flags |-> f] : f \in SUBSET {"major", "minor", "patch"}}

\* the record at position i of a sequence of n records; the oldest commit is 1
RecordOf(shape, i, n) ==
    IF shape.solid
    THEN GitVersion(TRUE, i, FALSE, FALSE, FALSE, n - i + 1)
    ELSE GitVersion(FALSE, Nil, "major" \in shape.flags, "minor" \in shape.flags,
                    "patch" \in shape.flags, n - i + 1)

MasterVersions ==
    {Version(0, 0, 0, NoPreRelease), Version(1, 0, 0, NoPreRelease),
     Version(1, 2, 0, NoPreRelease)}

InitAsm ==
    /\ pc = "assemble"
    /\ NoRepo /\ NoTags
    /\ \E n \in 0..MaxLen : \E shape \in [1..n -> Shapes] :
          /\ versionMap = [i \in 1..n |-> RecordOf(shape[i], i, n)]
          /\ \E m \in MasterVersions :
                heap = [a \in {MasterAddr} \cup {i \in 1..n : shape[i].solid} |->
                           IF a = MasterAddr THEN m ELSE parseTag(TagName(n - a + 1))]
          /\ headHash = IF n = 0 THEN 1 ELSE n
    /\ masterVersion = MasterAddr
    /\ baseVersion = Nil
    /\ index = Nil
    /\ currentBranch = <<"feature", "-", "x">>
    /\ defaultBranch = [name |-> Master, hash |-> 0]
    /\ attempts = <<>>
    /\ \E forbid \in BOOLEAN :
          branchSettings = BranchSettings(forbid, FALSE, FALSE, Master)
    /\ result = NoResult

NextAsm == SelectBase \/ FoldStep \/ AttachPrerelease \/ ForbidCheck

SpecAsm == InitAsm /\ [][NextAsm]_vars

----------------------------------------------------------------------------
(* The tag map on every set of tags *)

\* the hash of the tag object of the annotated tag named name
TagObjectHash(name) == 100 * name[1] + name[2]

LightweightNames == {<<1, 0, 0>>, <<1, 1, 0>>}
AnnotatedNames == {<<2, 0, 0>>, <<2, 1, 0>>}

InitTags ==
    /\ pc = "GetCurrentVersion"
    /\ commits = <<>>
    /\ refs = <<>>
    /\ remote = NoRemote
    /\ NoAssembly
    /\ \E tag \in {Unset, SetTo(<<>>), SetTo(<<3, 0, 0>>)} :
          env = [NoEnv EXCEPT !["TRAVIS_TAG"] = tag]
    /\ \E ignore \in BOOLEAN : branchSettings = BranchSettings(FALSE, FALSE, ignore, Master)
    /\ \E lw \in [LightweightNames -> {0} \cup Commits],
          an \in [AnnotatedNames -> {-1, 0} \cup Commits] :
          /\ tagObjects = {[name |-> n, target |-> an[n]] : n \in {m \in AnnotatedNames : an[m] >= 0}}
          /\ tagRefs = {[name |-> n, hash |-> lw[n]] : n \in {m \in LightweightNames : lw[m] > 0}}
                 \cup {[name |-> n, hash |-> TagObjectHash(n)] :
                          n \in {m \in AnnotatedNames : an[m] >= 0}}
    /\ ltagsLeft = {}
    /\ tagsLeft = {}
    /\ tagMap = <<>>
    /\ headHash \in Commits
    /\ currentBranch = <<>>
    /\ defaultBranch = NilRef
    /\ attempts = <<>>
    /\ result = NoResult

NextTags == TravisTag \/ LightweightTag \/ AnnotatedTag

SpecTags == InitTags /\ [][NextTags]_vars

----------------------------------------------------------------------------
(* getCurrentBranch on every environment and set of references *)

EnvValues ==
    {Unset, SetTo(<<>>), SetTo(<<"feature", "/", "pr">>), SetTo(<<"main">>)}

InitBranch ==
    /\ pc = "getCurrentBranch"
    /\ commits = <<>>
    /\ remote = NoRemote
    /\ NoTags /\ NoAssembly
    /\ refs \in [{Master, FeatureX, OriginMaster} -> {0} \cup Commits]
    /\ \E a \in EnvValues, b \in EnvValues, c \in EnvValues :
          env = [NoEnv EXCEPT ![BranchSignals[1]] = a, ![BranchSignals[2]] = b,
                              ![BranchSignals[3]] = c]
    /\ \E trim \in BOOLEAN, ignore \in BOOLEAN :
          branchSettings = BranchSettings(FALSE, trim, ignore, Master)
    /\ headHash \in Commits
    /\ currentBranch = <<>>
    /\ defaultBranch = NilRef
    /\ attempts = <<>>
    /\ result = NoResult

NextBranch == GetCurrentBranch

SpecBranch == InitBranch /\ [][NextBranch]_vars

----------------------------------------------------------------------------
(* getDefaultBranch on every set of references and configuration of origin *)

RefSpecs ==
    {RefSpec(TRUE, HeadsPrefix, OriginPrefix), RefSpec(FALSE, HeadsPrefix, OriginPrefix),
     RefSpec(TRUE, "refs/pull/", "refs/remotes/pr/"),
     RefSpec(TRUE, "refs/mirror/", OriginPrefix)}

InitDefault ==
    /\ pc = "getDefaultBranch"
    /\ commits = <<>>
    /\ env = NoEnv
    /\ NoTags /\ NoAssembly
    /\ refs \in [{Master, Main, Trunk, OriginMain, OriginTrunk} -> {0, 1}]
    /\ \E present \in BOOLEAN, head \in {OriginHEAD, OriginMain, OriginTrunk},
          n \in 0..MaxFetch :
          \E fetch \in [1..n -> RefSpecs] :
             remote = [present |-> present, head |-> head, fetch |-> fetch]
    /\ \E preferred \in {Master, Main} :
          branchSettings = BranchSettings(FALSE, FALSE, FALSE, preferred)
    /\ headHash = 1
    /\ currentBranch = <<"master">>
    /\ defaultBranch = NilRef
    /\ attempts = <<>>
    /\ result = NoResult

NextDefault == GetDefaultBranch

SpecDefault == InitDefault /\ [][NextDefault]_vars

----------------------------------------------------------------------------
(* Claims about the assembly step *)

\* the oldest record of the traversal sequence
Oldest == versionMap[Len(versionMap)]

\* the safety check has run: the walk gave records and some were folded
CheckRan == pc = "done" /\ Len(versionMap) > 0 /\ FirstIndex(versionMap) >= 0

\* C1: with ForbidBehindDefaultBranch, resolution fails when the numeric tuple
\* of the assembled version is strictly less than the default branch's and
\* does not fail when it is not, whatever the prerelease label; without the
\* setting it returns the assembled version with its prerelease label.
C1_NumericPrecedence ==
    CheckRan =>
        LET base == heap[baseVersion]
            master == heap[masterVersion]
        IN IF branchSettings.ForbidBehindDefaultBranch
           THEN IF NumericLess(base, master)
                THEN result.err # ""
                ELSE result.err = "" /\ result.version = baseVersion
           ELSE /\ result.err = ""
                /\ result.version = baseVersion
                /\ base.PreRelease # NoPreRelease

\* C2: the version the walk of the default branch returned (masterVersion)
\* keeps its major, minor, patch and prerelease through the assembly step.
C2_MasterVersionNotMutated ==
    [][masterVersion # Nil /\ masterVersion' # Nil
          => heap'[masterVersion'] = heap[masterVersion]]_vars

\* the number of records the loop folds
C5_Folded == IF Oldest.IsSolid THEN Len(versionMap) - 1 ELSE Len(versionMap)

\* C5: the count in the prerelease label is the number of records folded,
\* with a solid oldest record and without; when no record is folded the base
\* version is returned as it is, with no prerelease label.
C5_CountIsFolded ==
    /\ pc = "check" => heap[baseVersion].PreRelease[2] = C5_Folded
    /\ pc = "done" /\ Len(versionMap) > 0 /\ C5_Folded = 0 =>
          /\ result.err = ""
          /\ result.version = Oldest.Name
          /\ heap[result.version] = parseTag(TagName(Oldest.Commit))

\* what the base selection must have done, seen on its step
C6_Selected ==
    pc = "assemble" =>
        IF Len(versionMap) = 0
        THEN /\ pc' = "done"
             /\ result'.err = "Cannot determine version in branch"
             /\ result'.version = Nil
        ELSE /\ result'.err = ""
             /\ heap' = heap
             /\ IF Oldest.IsSolid
                THEN /\ baseVersion' = Oldest.Name
                     /\ heap[baseVersion'] = parseTag(TagName(Oldest.Commit))
                     /\ index' = Len(versionMap) - 2
                ELSE /\ baseVersion' = masterVersion
                     /\ index' = Len(versionMap) - 1

\* C6: with a solid oldest record the base is that record's version and the
\* record is left out of the fold; otherwise the base is the default branch's
\* version and every record is folded; an empty sequence gives the error
\* "Cannot determine version in branch".
C6_BaseSelection == [][C6_Selected]_vars

\* the base is the version of a solid oldest record, and records remain to fold
C6_Witness ==
    /\ pc = "fold"
    /\ Oldest.IsSolid
    /\ baseVersion = Oldest.Name
    /\ index = Len(versionMap) - 2

\* what one iteration of the fold must do, seen on its step
C10_Step ==
    pc = "fold" =>
        LET v == versionMap[index + 1]
            before == heap[baseVersion]
            after == heap'[baseVersion]
        IN /\ index' = index - 1
           /\ pc' = "fold" <=> index > 0
           /\ IF v.MajorBump THEN Numeric(after) = <<before.Major + 1, 0, 0>>
              ELSE IF v.MinorBump THEN Numeric(after) = <<before.Major, before.Minor + 1, 0>>
              ELSE IF v.PatchBump
                   THEN Numeric(after) = <<before.Major, before.Minor, before.Patch + 1>>
              ELSE after = before

\* the fold starts at the oldest record that remains
C10_Start ==
    pc = "assemble" /\ pc' = "fold" =>
        index' = (IF Oldest.IsSolid THEN Len(versionMap) - 1 ELSE Len(versionMap)) - 1

C10_Flags(v) ==
    {f \in {"major", "minor", "patch"} :
        \/ f = "major" /\ v.MajorBump
        \/ f = "minor" /\ v.MinorBump
        \/ f = "patch" /\ v.PatchBump}

\* the fold is over, from the base 1.0.0 of a solid oldest record
C10_FoldedFrom100 ==
    /\ pc = "label"
    /\ Oldest.IsSolid
    /\ parseTag(TagName(Oldest.Commit)) = Version(1, 0, 0, NoPreRelease)

C10_TwoMinor ==
    /\ Len(versionMap) = 3
    /\ C10_Flags(versionMap[1]) = {"minor"}
    /\ C10_Flags(versionMap[2]) = {"minor"}

C10_OnePatch == Len(versionMap) = 2 /\ C10_Flags(versionMap[1]) = {"patch"}

C10_Examples ==
    C10_FoldedFrom100 =>
        /\ C10_TwoMinor => Numeric(heap[baseVersion]) = <<1, 2, 0>>
        /\ C10_OnePatch => Numeric(heap[baseVersion]) = <<1, 0, 1>>

\* C10: the fold goes from the oldest remaining record to the newest (from
\* the highest index down to 0); each record applies at most one bump, major
\* before minor before patch, which increments that component and resets the
\* lower ones, and a record with no flag changes nothing; from 1.0.0 two minor
\* records give 1.2.0 and one patch record gives 1.0.1.
C10_OldestFirstFold == [][C10_Step /\ C10_Start]_vars /\ []C10_Examples

\* two minor records were folded onto 1.0.0
C10_Witness == C10_FoldedFrom100 /\ C10_TwoMinor /\ Numeric(heap[baseVersion]) = <<1, 2, 0>>

----------------------------------------------------------------------------
(* C3: resolving at a tagged commit *)

C3_Resolved == pc = "done"

\* C3: resolving with HEAD at a commit that bears a valid version tag returns
\* exactly the tag's version, with no prerelease label, whether the commit is
\* the default branch's head, a commit of another branch, or a checked-out
\* commit that no branch reference points at.
C3_TaggedCommitResolvesToTag ==
    C3_Resolved /\ headHash \in DOMAIN tagMap =>
        /\ result.err = ""
        /\ heap[result.version] = parseTag(tagMap[headHash])

----------------------------------------------------------------------------
(* C4: the count of the label of a branch ahead of the default branch *)

C4_Path == EnumeratePath(headHash, refs[Master])

\* how many commits HEAD is after the default branch's head, 0 when it is not
C4_Ahead ==
    IF C4_Path[Len(C4_Path)] = refs[Master] THEN Len(C4_Path) - 1 ELSE 0

\* HEAD is the head of a branch that is N >= 1 commits after the default
\* branch's head, none of them tagged or bump-triggering
C4_Case ==
    /\ C4_Ahead >= 1
    /\ BranchesAt(refs, headHash) # {}
    /\ \A i \in 1..C4_Ahead :
          C4_Path[i] \notin DOMAIN tagMap /\ commits[C4_Path[i]].bump = "none"

\* C4: a branch whose head is N >= 1 untagged commits after the default
\* branch's head, none of them bump-triggering, resolves to a version whose
\* prerelease label is {branch}-{N}-{hash}.
C4_DivergenceCount ==
    pc = "done" /\ C4_Case =>
        /\ result.err = ""
        /\ heap[result.version].PreRelease = <<currentBranch, C4_Ahead, ShortHash(headHash)>>

----------------------------------------------------------------------------
(* C7: the order of getDefaultBranch's attempts *)

\* the local names step 3 maps origin's HEAD to, in the order of the refspecs
C7_Mapped ==
    LET ref == Resolve(refs, remote, OriginHEAD) IN
    IF ~remote.present \/ ref = NilRef THEN <<>>
    ELSE LET hits == SelectSeq(remote.fetch, LAMBDA rs : Match(Reverse(rs), ref.name)) IN
         [i \in 1..Len(hits) |-> StripPlus(Dst(Reverse(hits[i]), ref.name))]

\* the names the three steps try, in order
C7_Candidates ==
    <<branchSettings.DefaultBranch>>
        \o (IF branchSettings.DefaultBranch # Master THEN <<Master>> ELSE <<>>)
        \o C7_Mapped

C7_Resolves(i) == Resolve(refs, remote, C7_Candidates[i]) # NilRef

C7_Returned == pc # "getDefaultBranch"

\* C7: getDefaultBranch tries the preferred name, then refs/heads/master when
\* the preferred name differs from it, then the local names origin's HEAD maps
\* to through the reversed fetch refspecs with a leading "+" stripped; it
\* returns the first that resolves and attempts nothing after it, and returns
\* "failed to get default branch" exactly when none resolves.
C7_FirstSuccessWins ==
    C7_Returned =>
        IF \E i \in 1..Len(C7_Candidates) : C7_Resolves(i)
        THEN LET k == CHOOSE i \in 1..Len(C7_Candidates) :
                         C7_Resolves(i) /\ \A j \in 1..(i - 1) : ~C7_Resolves(j)
             IN /\ result.err = ""
                /\ defaultBranch = Resolve(refs, remote, C7_Candidates[k])
                /\ attempts # <<>>
                /\ attempts[Len(attempts)] = C7_Candidates[k]
                /\ \A j \in 1..(Len(attempts) - 1) :
                      Resolve(refs, remote, attempts[j]) = NilRef \/ attempts[j] = OriginHEAD
        ELSE result.err = "failed to get default branch"

----------------------------------------------------------------------------
(* C8: the branch name getCurrentBranch settles on *)

\* the first signal that is present and non-empty, 0 when there is none
C8_FirstNonEmpty ==
    IF branchSettings.IgnoreEnvVars THEN 0
    ELSE IF \E i \in 1..3 : env[BranchSignals[i]].ok /\ env[BranchSignals[i]].value # <<>>
         THEN CHOOSE i \in 1..3 :
                 /\ env[BranchSignals[i]].ok /\ env[BranchSignals[i]].value # <<>>
                 /\ \A j \in 1..(i - 1) :
                       ~(env[BranchSignals[j]].ok /\ env[BranchSignals[j]].value # <<>>)
         ELSE 0

C8_Returned == pc # "getCurrentBranch"

\* C8: unless IgnoreEnvVars, the branch name is that of the first of
\* TRAVIS_PULL_REQUEST_BRANCH, TRAVIS_BRANCH, CI_COMMIT_REF_NAME that is
\* present and non-empty (a signal set to the empty string is passed over);
\* with no such signal, or with IgnoreEnvVars, the name is that of a branch
\* reference whose hash is HEAD's, and "Cannot determine branch" is the error
\* when no branch matches.
C8_SignalPriority ==
    C8_Returned =>
        IF C8_FirstNonEmpty # 0
        THEN /\ result.err = ""
             /\ currentBranch = cleanseBranchName(env[BranchSignals[C8_FirstNonEmpty]].value,
                                                  branchSettings.TrimBranchPrefix)
        ELSE IF BranchesAt(refs, headHash) = {}
             THEN result.err = "Cannot determine branch"
             ELSE /\ result.err = ""
                  /\ \E n \in BranchesAt(refs, headHash) :
                        currentBranch = cleanseBranchName(Short(n), branchSettings.TrimBranchPrefix)

----------------------------------------------------------------------------
(* C9: annotated tags win in the tag map *)

C9_Annotated(h) == {o \in tagObjects : o.target = h}
C9_Lightweight(h) == {r \in tagRefs : r.hash = h}
C9_MapBuilt == pc = "getCurrentBranch"

\* C9: in the tag map GetCurrentVersion hands to the walk, a commit hash that
\* an annotated tag targets maps to the name of an annotated tag targeting it,
\* also when lightweight tags target it too and in whatever order the tags of
\* each kind are enumerated; a hash that only lightweight tags target maps to
\* the name of one of them.
C9_AnnotatedWins ==
    C9_MapBuilt =>
        \A h \in Commits :
            /\ C9_Annotated(h) # {} =>
                  /\ h \in DOMAIN tagMap
                  /\ tagMap[h] \in {o.name : o \in C9_Annotated(h)}
            /\ C9_Annotated(h) = {} /\ C9_Lightweight(h) # {} =>
                  /\ h \in DOMAIN tagMap
                  /\ tagMap[h] \in {r.name : r \in C9_Lightweight(h)}
            /\ C9_Annotated(h) = {} /\ C9_Lightweight(h) = {} => h \notin DOMAIN tagMap

\* a map was built for a commit that a tag of each kind targets
C9_Witness ==
    /\ C9_MapBuilt
    /\ \E h \in Commits : C9_Annotated(h) # {} /\ C9_Lightweight(h) # {}

====
